---- MODULE Spec2Model ----
(***************************************************************************)
(* The EyeOnWater integration: one config entry, its meter collection,     *)
(* the polling cycle (EyeOnWaterData.read_meters driven by the platform's  *)
(* DataUpdateCoordinator), the coordinator listeners of the sensor         *)
(* entities, and the statistics store they submit to.                      *)
(*                                                                         *)
(* Optional values (datetime | None, DataPoint | None) are sequences of    *)
(* length at most one: None is <<>> and a present value x is <<x>>.        *)
(* Module wiring (imports, constructor arity) is not modelled: every       *)
(* function is modelled as its body reads.                                 *)
(*                                                                         *)
(* Specifications: Spec (setup, platforms and the polling cycle of one     *)
(* meter), SpecBulk (the bulk import over two meters), SpecFilter (the     *)
(* history filter), SpecRestart (Spec across process restarts),            *)
(* SpecUnload (setup and unload next to other entries), SpecUnits (the     *)
(* platform setups over meters of any unit) and SpecSched (when refreshes  *)
(* run: setup task, interval and debounced requests).                      *)
(***************************************************************************)
EXTENDS Integers, Sequences, FiniteSets, TLC

\* Timestamps of historical data points are 1..MaxTime.
MaxTime == 2

\* The longest point list handed to filter_newer_data on its own.
FilterMaxLen == 4

\* The refresh requests made through the debouncer in one run.
MaxRequests == 3

None == <<>>
Some(x) == <<x>>

Max(a, b) == IF a >= b THEN a ELSE b

Last(s) == s[Len(s)]

RECURSIVE SetMax(_)
SetMax(S) ==
  LET x == CHOOSE y \in S : TRUE
  IN  IF S = {x} THEN x ELSE Max(x, SetMax(S \ {x}))

Range(s) == {s[i] : i \in 1..Len(s)}

(***************************************************************************)
(* The account's meters and what the utility API can answer.               *)
(***************************************************************************)
AllMeters == {"m1", "m2"}

Times == 1..MaxTime

\* The cumulative reading the utility reports for a sample taken at time t.
ReadingAt(t) == 10 * t

DataPoint(t) == [dt |-> t, reading |-> ReadingAt(t)]

\* The ascending sequence of the data points with timestamps in S.
RECURSIVE PointsOf(_)
PointsOf(S) ==
  IF S = {} THEN <<>>
  ELSE LET t == SetMax(S) IN Append(PointsOf(S \ {t}), DataPoint(t))

\* Every answer of meter.read_historical_data: points ordered by timestamp.
Histories == {PointsOf(S) : S \in SUBSET Times}

\* Every answer of meter.read_meter_info: the current reading and a flag.
InfoSnapshots ==
  {[reading |-> 100, leak |-> FALSE], [reading |-> 200, leak |-> TRUE]}

\* The info a meter carries when account.fetch_meters returns it.
DiscoveredInfo == [reading |-> 100, leak |-> FALSE]

\* The units of measurement a meter can report: three the integration maps,
\* and one it does not know.
NativeUnits == {"gal", "cf", "cm", "other"}

\* A meter object as account.fetch_meters returns it.
NewMeter(unit) ==
  [info |-> DiscoveredInfo, last_historical_data |-> <<>>,
   native_unit_of_measurement |-> unit]

\* What the state restore of the platform holds for a reading sensor:
\* nothing, or the state string of an earlier run (the number it spells).
RestoredReadings == {None, Some(100)}

\* What the state restore of the platform holds for a flag sensor.
RestoredFlags == {None, Some("on")}

\* The meter lists account.fetch_meters answers with.
DiscoverableMeters == {<<"m1">>}

(***************************************************************************)
(* statistic_helper: the helpers sensor.py and coordinator.py import.      *)
(***************************************************************************)
\* filter_newer_data(data, last_imported_time): the points strictly newer
\* than the cutoff, in order; everything when there is no cutoff.
filter_newer_or_equal(data, last_imported_time) ==
  IF last_imported_time = None THEN data
  ELSE LET newer(p) == p.dt >= last_imported_time[1]
       IN  SelectSeq(data, newer)

filter_newer_data(data, last_imported_time) ==
  IF last_imported_time = None THEN data
  ELSE LET newer(p) == p.dt > last_imported_time[1]
       IN  SelectSeq(data, newer)

\* get_ha_native_unit_of_measurement(unit): the platform's unit for the
\* meter's unit; a unit it cannot map is an error.
get_ha_native_unit_of_measurement(unit) ==
  CASE unit = "gal" -> [ok |-> TRUE, value |-> "gallons"]
    [] unit = "cf" -> [ok |-> TRUE, value |-> "cubic_feet"]
    [] unit = "cm" -> [ok |-> TRUE, value |-> "cubic_meters"]
    [] OTHER -> [ok |-> FALSE, value |-> "none"]

\* convert_statistic_data(data): one statistics row per data point.
convert_statistic_data(data) ==
  [i \in 1..Len(data) |->
     [start |-> data[i].dt, state |-> data[i].reading, sum |-> data[i].reading]]

\* get_statistic_metadata(meter): the identity of the meter's stream.
get_statistic_metadata(m) == [source |-> "eyeonwater", statistic_id |-> m]

\* A batch as async_import_statistics receives it.
Batch(m, data) ==
  [metadata |-> get_statistic_metadata(m),
   statistics |-> convert_statistic_data(data)]

\* The timestamps of the rows of a batch.
BatchTimes(b) == {b.statistics[i].start : i \in 1..Len(b.statistics)}

(***************************************************************************)
(* State.                                                                  *)
(***************************************************************************)
VARIABLES
  setupPc,      \* async_setup_entry: where it is, or how it ended
  meters,       \* EyeOnWaterData.meters, the discovered meters in order
  meter,        \* per meter: its info snapshot and last_historical_data
  coordinator,  \* the DataUpdateCoordinator of the entry
  hassData,     \* hass.data[DOMAIN]: the entry ids that hold a value
  task,         \* per meter: the info and history fetch of the cycle
  platform,     \* the sensor and binary_sensor platform setups
  listeners,    \* the coordinator's listeners, in registration order
  stat,         \* per meter: the EyeOnWaterStatistic entity
  sensor,       \* per meter: the EyeOnWaterSensor entity
  binary,       \* per meter: the EyeOnWaterBinarySensor entity
  published,    \* per entity: the state last written to the platform
  store,        \* per meter: the statistics store's last imported time
  bulk,         \* EyeOnWaterData.import_historical_data: its progress
  recon,        \* per meter: what its reconciliation did in the latest cycle
  lastCycle,    \* how the last polling cycle ended
  committed,    \* per meter: the meter as the last successful cycle left it
  filterCall,   \* a call of filter_newer_data: its arguments and result
  scheduling    \* when refreshes run: the coordinator's timers and debouncer

vars ==
  <<setupPc, meters, meter, coordinator, hassData, task, platform, listeners,
    stat, sensor, binary, published, store, bulk, recon, lastCycle, committed,
    filterCall, scheduling>>

EntryId == "entry1"

NoTask == [info |-> "none", hist |-> "none"]

NoRecon ==
  [outcome |-> "none", hist |-> <<>>, before |-> None, filtered |-> <<>>,
   batches |-> <<>>]

NoBulk == [active |-> FALSE, idx |-> 0, result |-> "none", log |-> <<>>]

NoCall == [calls |-> 0, data |-> <<>>, cutoff |-> None, result |-> <<>>]

\* No refresh has been asked for, started or scheduled.
NoScheduling ==
  [initial_task |-> FALSE, has_listeners |-> FALSE, unsub_refresh |-> FALSE,
   timer_task |-> FALSE, execute_at_end_of_timer |-> FALSE,
   direct |-> FALSE, debounced |-> FALSE,
   requests |-> 0, asked |-> 0, served |-> 0]

Unwritten == [written |-> FALSE, available |-> FALSE, value |-> None]

\* EyeOnWaterStatistic.__init__
NewStatistic(last_imported_time) ==
  [created |-> TRUE, available |-> FALSE, state |-> None,
   last_imported_time |-> last_imported_time, last_historical_data |-> <<>>]

\* EyeOnWaterSensor.__init__
NewSensor == [created |-> TRUE, available |-> FALSE, state |-> None]

\* EyeOnWaterBinarySensor.__init__
NewBinary == [created |-> TRUE, is_on |-> FALSE]

NoStatistic ==
  [created |-> FALSE, available |-> FALSE, state |-> None,
   last_imported_time |-> None, last_historical_data |-> <<>>]

NoSensor == [created |-> FALSE, available |-> FALSE, state |-> None]

NoBinary == [created |-> FALSE, is_on |-> FALSE]

\* The entry before async_setup_entry runs.
Init ==
  /\ setupPc = "start"
  /\ meters = <<>>
  /\ meter = [m \in AllMeters |-> NewMeter("gal")]
  /\ coordinator =
       [exists |-> FALSE, last_update_success |-> TRUE, refreshing |-> FALSE,
        initial |-> FALSE]
  /\ hassData = {}
  /\ task = [m \in AllMeters |-> NoTask]
  /\ platform = [sensor |-> "none", queried |-> 0, binary |-> "none"]
  /\ listeners = <<>>
  /\ stat = [m \in AllMeters |-> NoStatistic]
  /\ sensor = [m \in AllMeters |-> NoSensor]
  /\ binary = [m \in AllMeters |-> NoBinary]
  /\ published = [k \in {"stat", "sensor", "binary"} |->
                    [m \in AllMeters |-> Unwritten]]
  /\ store = [m \in AllMeters |-> None]
  /\ bulk = NoBulk
  /\ recon = [m \in AllMeters |-> NoRecon]
  /\ lastCycle = [result |-> "none", notified |-> FALSE, raised |-> FALSE]
  /\ committed = meter
  /\ filterCall = NoCall
  /\ scheduling = NoScheduling

(***************************************************************************)
(* Entity state as the platform sees it.                                   *)
(***************************************************************************)
\* meter.reading: the data point of the meter's info snapshot.
MeterReading(m) == [kind |-> "point", reading |-> meter[m].info.reading]

\* native_value of the statistic and the water sensor: the reading of the
\* held state; a restored state is a string, which has no reading.
native_value(state) ==
  IF state = None THEN [ok |-> TRUE, value |-> None]
  ELSE IF state[1].kind = "point"
       THEN [ok |-> TRUE, value |-> Some(state[1].reading)]
       ELSE [ok |-> FALSE, value |-> None]

\* async_write_ha_state of a reading sensor: unavailable hides the value.
WriteReading(old, e) ==
  IF ~e.available
  THEN [written |-> TRUE, available |-> FALSE, value |-> None]
  ELSE IF native_value(e.state).ok
       THEN [written |-> TRUE, available |-> TRUE,
             value |-> native_value(e.state).value]
       ELSE old

\* async_write_ha_state of a flag sensor; CoordinatorEntity.available is the
\* coordinator's last_update_success.
WriteFlag(success, e) ==
  IF ~success
  THEN [written |-> TRUE, available |-> FALSE, value |-> None]
  ELSE [written |-> TRUE, available |-> TRUE,
        value |-> Some(IF e.is_on THEN "on" ELSE "off")]

\* get_last_imported_time(hass, meter): the store's last imported time.
get_last_imported_time(m) == store[m]

\* import_statistics: the store holds the rows; its last time moves up.
StoreAfter(old, b) ==
  IF BatchTimes(b) = {} THEN old
  ELSE IF old = None THEN Some(SetMax(BatchTimes(b)))
       ELSE Some(Max(old[1], SetMax(BatchTimes(b))))

(***************************************************************************)
(* async_setup_entry (__init__.py).                                        *)
(***************************************************************************)
SetupAuthenticateFallsThrough ==
  /\ setupPc = "start"
  /\ \E outcome \in {"ok", "auth_error", "timeout"} :
       /\ setupPc' = CASE outcome = "ok" -> "authenticated"
                       [] outcome = "auth_error" -> "auth_failed"
                       [] OTHER -> "not_ready"
       /\ meters' = IF outcome = "auth_error"
                    THEN CHOOSE found \in DiscoverableMeters : TRUE
                    ELSE meters
  /\ UNCHANGED <<filterCall, scheduling, meter, coordinator, hassData, task, platform,
                 listeners, stat, sensor, binary, published, store, bulk,
                 recon, lastCycle, committed>>

\* client.authenticate(): accepted, rejected (return False) or timed out
\* (ConfigEntryNotReady).
SetupAuthenticate ==
  /\ setupPc = "start"
  /\ \E outcome \in {"ok", "auth_error", "timeout"} :
       setupPc' = CASE outcome = "ok" -> "authenticated"
                    [] outcome = "auth_error" -> "auth_failed"
                    [] OTHER -> "not_ready"
  /\ UNCHANGED <<filterCall, scheduling, meters, meter, coordinator, hassData, task, platform,
                 listeners, stat, sensor, binary, published, store, bulk,
                 recon, lastCycle, committed>>

\* EyeOnWaterData.setup() raises UpdateFailed: fetch_meters failed.
SetupFetchMetersFailed ==
  /\ setupPc = "authenticated"
  /\ setupPc' = "update_failed"
  /\ UNCHANGED <<filterCall, scheduling, meters, meter, coordinator, hassData, task, platform,
                 listeners, stat, sensor, binary, published, store, bulk,
                 recon, lastCycle, committed>>

\* EyeOnWaterData.setup() returns; the coordinator is built and stored, the
\* first refresh is started as a task and the platforms are forwarded.
SetupLoaded ==
  /\ setupPc = "authenticated"
  /\ \E found \in DiscoverableMeters : meters' = found
  /\ coordinator' = [exists |-> TRUE, last_update_success |-> TRUE,
                     refreshing |-> FALSE, initial |-> TRUE]
  /\ hassData' = hassData \cup {EntryId}
  /\ platform' = [sensor |-> "pending", queried |-> 0, binary |-> "pending"]
  /\ setupPc' = "forwarding"
  /\ UNCHANGED <<filterCall, scheduling, meter, task, listeners, stat, sensor, binary, published,
                 store, bulk, recon, lastCycle, committed>>

\* async_forward_entry_setups returns once both platforms are set up, and
\* async_setup_entry returns True.
Forwarded(other) ==
  IF other \in {"added", "failed"} THEN "loaded" ELSE "forwarding"

(***************************************************************************)
(* The entity platforms (sensor.py, binary_sensor.py).                     *)
(***************************************************************************)
InList(m) == m \in Range(meters)

\* The listeners a platform registers: per meter, in order, the given kinds.
RECURSIVE ListenersOf(_, _)
ListenersOf(ms, kinds) ==
  IF ms = <<>> THEN <<>>
  ELSE [i \in 1..Len(kinds) |-> <<kinds[i], Head(ms)>>]
         \o ListenersOf(Tail(ms), kinds)

\* EyeOnWaterStatistic.__init__ and EyeOnWaterSensor.__init__ return for the
\* meter: its unit of measurement maps to a unit of the platform.
ConstructsSensors(m) ==
  get_ha_native_unit_of_measurement(meter[m].native_unit_of_measurement).ok

\* sensor.async_setup_entry, one meter of the list: await the store's last
\* imported time and construct the statistic and the water sensor.
SensorPlatformQuery ==
  /\ platform.sensor = "pending"
  /\ platform.queried < Len(meters)
  /\ ConstructsSensors(meters[platform.queried + 1])
  /\ LET m == meters[platform.queried + 1] IN
       /\ stat' = [stat EXCEPT ![m] = NewStatistic(get_last_imported_time(m))]
       /\ sensor' = [sensor EXCEPT ![m] = NewSensor]
  /\ platform' = [platform EXCEPT !.queried = @ + 1]
  /\ UNCHANGED <<filterCall, scheduling, setupPc, meters, meter, coordinator, hassData, task,
                 listeners, binary, published, store, bulk, recon, lastCycle,
                 committed>>

\* sensor.async_setup_entry, one meter of the list whose unit is not mapped:
\* the constructor raises out of the comprehension, async_add_entities is
\* not reached and the platform is not set up.
SensorPlatformRaises ==
  /\ platform.sensor = "pending"
  /\ platform.queried < Len(meters)
  /\ ~ConstructsSensors(meters[platform.queried + 1])
  /\ platform' = [platform EXCEPT !.sensor = "failed"]
  /\ setupPc' = Forwarded(platform.binary)
  /\ UNCHANGED <<filterCall, scheduling, meters, meter, coordinator, hassData, task,
                 listeners, stat, sensor, binary, published, store, bulk,
                 recon, lastCycle, committed>>

\* async_added_to_hass of the statistic and the water sensor: subscribe;
\* when the last update failed, take the stored state and become available.
ReadingAdded(e, last_state) ==
  IF coordinator.last_update_success \/ last_state = None THEN e
  ELSE [e EXCEPT !.state = Some([kind |-> "str", reading |-> last_state[1]]),
                 !.available = TRUE]

\* async_add_entities(sensors): every entity is added and writes its state.
SensorPlatformAdd ==
  /\ platform.sensor = "pending"
  /\ platform.queried = Len(meters)
  /\ \E rs \in RestoredReadings :
       /\ stat' = [m \in AllMeters |->
                     IF InList(m) THEN ReadingAdded(stat[m], rs) ELSE stat[m]]
       /\ sensor' = [m \in AllMeters |->
                       IF InList(m) THEN ReadingAdded(sensor[m], rs)
                       ELSE sensor[m]]
  /\ published' =
       [published EXCEPT
          !["stat"] = [m \in AllMeters |->
             IF InList(m) THEN WriteReading(@[m], stat'[m]) ELSE @[m]],
          !["sensor"] = [m \in AllMeters |->
             IF InList(m) THEN WriteReading(@[m], sensor'[m]) ELSE @[m]]]
  /\ listeners' = listeners \o ListenersOf(meters, <<"stat", "sensor">>)
  /\ platform' = [platform EXCEPT !.sensor = "added"]
  /\ setupPc' = Forwarded(platform.binary)
  /\ UNCHANGED <<filterCall, scheduling, meters, meter, coordinator, hassData, task, binary,
                 store, bulk, recon, lastCycle, committed>>

\* EyeOnWaterBinarySensor.async_added_to_hass: subscribe; take the flag of
\* the meter when the last update succeeded, else the stored state.
BinaryAdded(m, last_state) ==
  IF coordinator.last_update_success
  THEN [created |-> TRUE, is_on |-> meter[m].info.leak]
  ELSE IF last_state = None THEN NewBinary
       ELSE [created |-> TRUE, is_on |-> (last_state[1] = "on")]

\* binary_sensor.async_setup_entry: construct and add the flag sensors.
BinaryPlatformAdd ==
  /\ platform.binary = "pending"
  /\ \E rs \in RestoredFlags :
       binary' = [m \in AllMeters |->
                    IF InList(m) THEN BinaryAdded(m, rs) ELSE binary[m]]
  /\ published' =
       [published EXCEPT
          !["binary"] = [m \in AllMeters |->
             IF InList(m)
             THEN WriteFlag(coordinator.last_update_success, binary'[m])
             ELSE @[m]]]
  /\ listeners' = listeners \o ListenersOf(meters, <<"binary">>)
  /\ platform' = [platform EXCEPT !.binary = "added"]
  /\ setupPc' = Forwarded(platform.sensor)
  /\ UNCHANGED <<filterCall, scheduling, meters, meter, coordinator, hassData, task, stat,
                 sensor, store, bulk, recon, lastCycle, committed>>

(***************************************************************************)
(* The coordinator listeners: EyeOnWaterStatistic._state_update,           *)
(* EyeOnWaterSensor._state_update and                                      *)
(* EyeOnWaterBinarySensor._handle_coordinator_update.  A listener works on *)
(* a record st of the entities, what they published, the store and the     *)
(* reconciliation records; st.raised says a listener raised.               *)
(***************************************************************************)
HasNoDataNever(hist) == FALSE

\* "if not self.meter.last_historical_data: raise NoDataFound"
HasNoData(hist) == hist = <<>>

FilteredHistoryAll(m, e) == meter[m].last_historical_data

\* The filter as _state_update applies it: the meter's fetched history
\* against the entity's in-memory watermark.
FilteredHistory(m, e) ==
  filter_newer_data(meter[m].last_historical_data, e.last_imported_time)

\* EyeOnWaterStatistic.import_historical_data: the batches it submits.
import_historical_data(m, e) ==
  IF e.last_historical_data = <<>> THEN <<>>
  ELSE <<Batch(m, e.last_historical_data)>>

AdvancedWatermarkFirst(e) == Some(e.last_historical_data[1].dt)

\* "self._last_imported_time = self._last_historical_data[-1].dt"
AdvancedWatermark(e) == Some(Last(e.last_historical_data).dt)

ShouldImportMany(e) == Len(e.last_historical_data) > 1

\* "if self._last_historical_data:" guards the import and the advance.
ShouldImport(e) == e.last_historical_data # <<>>

OnSubmitRaiseAdvances(kept, advanced) == advanced

\* The entity when import_historical_data raised: the assignment of the
\* watermark after it is not reached (kept: the entity before the import,
\* advanced: the entity had the import returned).
OnSubmitRaise(kept, advanced) == kept

TakesReadingAlways(success) == TRUE

\* "if self._available:" guards the update of the held reading.
TakesReading(success) == success

\* EyeOnWaterStatistic._state_update; submitOk: whether the statistics
\* store accepts the batch or raises.  The reconciliation record keeps the
\* history the run saw, the watermark it started from, what it filtered
\* and what it handed to the store.
Statistic_state_update(st, m, success, submitOk) ==
  LET e0 == st.stat[m]
      e1 == [e0 EXCEPT !.available = success]
      e2 == IF TakesReading(success)
            THEN [e1 EXCEPT !.state = Some(MeterReading(m))] ELSE e1
      e3 == [e2 EXCEPT !.last_historical_data = FilteredHistory(m, e2)]
      batches == import_historical_data(m, e3)
      e4 == [e3 EXCEPT !.last_imported_time = AdvancedWatermark(e3)]
      done(e, outcome, bs, raised) ==
        [st EXCEPT
           !.stat[m] = e,
           !.recon[m] = [outcome |-> outcome,
                         hist |-> meter[m].last_historical_data,
                         before |-> e0.last_imported_time,
                         filtered |-> e.last_historical_data,
                         batches |-> bs],
           !.published["stat"][m] =
              IF raised THEN @ ELSE WriteReading(@, e),
           !.store[m] =
              IF outcome = "submitted" THEN StoreAfter(@, bs[1]) ELSE @,
           !.raised = raised]
  IN  IF ~success THEN done(e1, "skipped", <<>>, FALSE)
      ELSE IF HasNoData(meter[m].last_historical_data)
           THEN done(e2, "nodata", <<>>, TRUE)
      ELSE IF ~ShouldImport(e3) THEN done(e3, "empty", <<>>, FALSE)
      ELSE IF batches # <<>> /\ ~submitOk
           THEN done(OnSubmitRaise(e3, e4), "submit_error", batches, TRUE)
      ELSE done(e4, IF batches = <<>> THEN "empty" ELSE "submitted",
                batches, FALSE)

\* EyeOnWaterSensor._state_update
Sensor_state_update(st, m, success) ==
  LET e1 == [st.sensor[m] EXCEPT !.available = success]
      e2 == IF TakesReading(success)
            THEN [e1 EXCEPT !.state = Some(MeterReading(m))] ELSE e1
  IN  [st EXCEPT !.sensor[m] = e2,
                 !.published["sensor"][m] = WriteReading(@, e2)]

\* EyeOnWaterBinarySensor.get_flag
get_flag(m) == meter[m].info.leak

\* EyeOnWaterBinarySensor._handle_coordinator_update
Binary_handle_coordinator_update(st, m, success) ==
  LET e == [st.binary[m] EXCEPT !.is_on = get_flag(m)]
  IN  [st EXCEPT !.binary[m] = e,
                 !.published["binary"][m] = WriteFlag(success, e)]

RunListener(st, l, success, submitOk) ==
  CASE l[1] = "stat" -> Statistic_state_update(st, l[2], success, submitOk[l[2]])
    [] l[1] = "sensor" -> Sensor_state_update(st, l[2], success)
    [] OTHER -> Binary_handle_coordinator_update(st, l[2], success)

\* async_update_listeners: the listeners in registration order; a listener
\* that raises ends the loop.
RECURSIVE RunListeners(_, _, _, _)
RunListeners(ls, st, success, submitOk) ==
  IF ls = <<>> \/ st.raised THEN st
  ELSE RunListeners(Tail(ls), RunListener(st, Head(ls), success, submitOk),
                    success, submitOk)

Entities ==
  [stat |-> stat, sensor |-> sensor, binary |-> binary,
   published |-> published, store |-> store, recon |-> recon,
   raised |-> FALSE]

\* The listeners are called, or not (notify), after a refresh.
Notify(notify, success, submitOk) ==
  LET st == IF notify THEN RunListeners(listeners, Entities, success, submitOk)
            ELSE Entities
  IN  /\ stat' = st.stat
      /\ sensor' = st.sensor
      /\ binary' = st.binary
      /\ published' = st.published
      /\ store' = st.store
      /\ recon' = st.recon
      /\ lastCycle' = [result |-> IF success THEN "ok" ELSE "failed",
                       notified |-> notify, raised |-> st.raised]

(***************************************************************************)
(* The polling cycle: DataUpdateCoordinator._async_refresh calling         *)
(* async_update_data, which awaits EyeOnWaterData.read_meters.             *)
(***************************************************************************)
\* A fetch that raised EyeOnWaterAPIError or EyeOnWaterAuthError: the one
\* except clause of read_meters catches both.
Failed(status) == status = "failed"

Tasks == {<<m, k>> : m \in AllMeters, k \in {"info", "hist"}}

StatusOf(t) == task[t[1]][t[2]]

\* The status a fetch ends with: gather holds its result while read_meters
\* awaits it; once gather has raised, nobody looks at it.
Finished(status) == IF coordinator.refreshing THEN status ELSE "none"

\* A refresh starts: the task started at setup, or the tick of the interval
\* (SCAN_INTERVAL after the refresh before, by when the platforms are set
\* up).  read_meters builds one info and one history fetch per meter and
\* awaits asyncio.gather over them.
Tick ==
  /\ coordinator.exists
  /\ ~coordinator.refreshing
  /\ coordinator.initial \/ setupPc = "loaded"
  /\ \A t \in Tasks : StatusOf(t) # "pending"
  /\ coordinator' = [coordinator EXCEPT !.refreshing = TRUE, !.initial = FALSE]
  /\ task' = [m \in AllMeters |->
                IF InList(m) THEN [info |-> "pending", hist |-> "pending"]
                ELSE NoTask]
  /\ recon' = [m \in AllMeters |-> NoRecon]
  /\ UNCHANGED <<filterCall, scheduling, setupPc, meters, meter, hassData, platform, listeners, stat,
                 sensor, binary, published, store, bulk, lastCycle,
                 committed>>

\* meter.read_meter_info returns: the meter holds the new snapshot.
ReadMeterInfoOk(m) ==
  /\ task[m].info = "pending"
  /\ \E snapshot \in InfoSnapshots :
       meter' = [meter EXCEPT ![m].info = snapshot]
  /\ task' = [task EXCEPT ![m].info = Finished("done")]
  /\ UNCHANGED <<filterCall, scheduling, setupPc, meters, coordinator, hassData, platform, listeners,
                 stat, sensor, binary, published, store, bulk, recon,
                 lastCycle, committed>>

\* meter.read_meter_info raises EyeOnWaterAPIError or EyeOnWaterAuthError.
ReadMeterInfoFail(m) ==
  /\ task[m].info = "pending"
  /\ task' = [task EXCEPT ![m].info = Finished("failed")]
  /\ UNCHANGED <<filterCall, scheduling, setupPc, meters, meter, coordinator, hassData, platform,
                 listeners, stat, sensor, binary, published, store, bulk,
                 recon, lastCycle, committed>>

\* meter.read_historical_data returns: the meter holds the fetched list.
ReadHistoricalDataOk(m) ==
  /\ task[m].hist = "pending"
  /\ \E data \in Histories :
       meter' = [meter EXCEPT ![m].last_historical_data = data]
  /\ task' = [task EXCEPT ![m].hist = Finished("done")]
  /\ UNCHANGED <<filterCall, scheduling, setupPc, meters, coordinator, hassData, platform, listeners,
                 stat, sensor, binary, published, store, bulk, recon,
                 lastCycle, committed>>

\* meter.read_historical_data raises.
ReadHistoricalDataFail(m) ==
  /\ task[m].hist = "pending"
  /\ task' = [task EXCEPT ![m].hist = Finished("failed")]
  /\ UNCHANGED <<filterCall, scheduling, setupPc, meters, meter, coordinator, hassData, platform,
                 listeners, stat, sensor, binary, published, store, bulk,
                 recon, lastCycle, committed>>

\* A fetch that is over leaves the cycle; one still running stays.
Settled(status) == IF status = "pending" THEN "pending" ELSE "none"

\* gather returned: read_meters returns the meters, the update succeeded
\* and the listeners are called.
RefreshSucceeded ==
  /\ coordinator.refreshing
  /\ \A m \in AllMeters :
       InList(m) => task[m].info = "done" /\ task[m].hist = "done"
  /\ coordinator' = [coordinator EXCEPT !.refreshing = FALSE,
                                        !.last_update_success = TRUE]
  /\ task' = [m \in AllMeters |-> NoTask]
  /\ committed' = meter
  /\ \E submitOk \in [AllMeters -> BOOLEAN] : Notify(TRUE, TRUE, submitOk)
  /\ UNCHANGED <<filterCall, scheduling, setupPc, meters, meter, hassData, platform, listeners, bulk>>

\* gather raised the first fetch error: read_meters raises UpdateFailed, the
\* update failed.  The fetches still running are not cancelled.  The
\* listeners are called unless the update before failed too.
RefreshFailed ==
  /\ coordinator.refreshing
  /\ coordinator' = [coordinator EXCEPT !.refreshing = FALSE,
                                        !.last_update_success = FALSE]
  /\ task' = [m \in AllMeters |->
                [info |-> Settled(task[m].info), hist |-> Settled(task[m].hist)]]
  /\ \E t \in Tasks : Failed(StatusOf(t))
  /\ Notify(coordinator.last_update_success, FALSE, [m \in AllMeters |-> TRUE])
  /\ UNCHANGED <<filterCall, scheduling, setupPc, meters, meter, hassData, platform, listeners, bulk,
                 committed>>

(***************************************************************************)
(* EyeOnWaterData.import_historical_data(days): the on-demand bulk import. *)
(***************************************************************************)
BulkImportStart ==
  /\ coordinator.exists
  /\ ~bulk.active
  /\ bulk' = IF meters = <<>>
             THEN [active |-> FALSE, idx |-> 0, result |-> "done", log |-> <<>>]
             ELSE [active |-> TRUE, idx |-> 1, result |-> "none", log |-> <<>>]
  /\ UNCHANGED <<filterCall, scheduling, setupPc, meters, meter, coordinator, hassData, task, platform,
                 listeners, stat, sensor, binary, published, store, recon,
                 lastCycle, committed>>

\* What the loop does after one meter: the next meter, or the end.
BulkAfter(entry, failed) ==
  IF failed # "none"
  THEN [active |-> FALSE, idx |-> bulk.idx, result |-> failed,
        log |-> Append(bulk.log, entry)]
  ELSE IF bulk.idx = Len(meters)
       THEN [active |-> FALSE, idx |-> bulk.idx, result |-> "done",
             log |-> Append(bulk.log, entry)]
       ELSE [active |-> TRUE, idx |-> bulk.idx + 1, result |-> "none",
             log |-> Append(bulk.log, entry)]

\* The statistics the bulk import submits for the fetched data.
BulkBatch(m, data) == Batch(m, data)

\* How the awaited call of the store ends: it returns, it raises, or it
\* stores the rows and the await of its result raises (the store's import is
\* a plain callback in the platform).
BulkSubmitEnds == {"returned", "raised", "stored_then_raised"}

\* One meter of the loop, its fetch returning: all of the fetched data is
\* converted and submitted; a raise of the store or of the await is not
\* caught.
BulkImportMeterOk ==
  /\ bulk.active
  /\ LET m == meters[bulk.idx] IN
     \E data \in Histories, ends \in BulkSubmitEnds :
       /\ meter' = [meter EXCEPT ![m].last_historical_data = data]
       /\ store' = [store EXCEPT ![m] =
                      IF ends # "raised" THEN StoreAfter(@, BulkBatch(m, data))
                      ELSE @]
       /\ bulk' = BulkAfter([meter |-> m,
                             outcome |-> IF ends # "raised" THEN "submitted"
                                         ELSE "submit_error",
                             batch |-> BulkBatch(m, data),
                             watermark |-> stat[m].last_imported_time],
                            IF ends = "returned" THEN "none" ELSE "raised")
  /\ UNCHANGED <<filterCall, scheduling, setupPc, meters, coordinator, hassData, task,
                 platform, listeners, stat, sensor, binary, published, recon,
                 lastCycle, committed>>

\* What the except clause does with a fetch error: log it and raise
\* UpdateFailed.
BulkOnFetchError == "update_failed"

\* One meter of the loop, its fetch raising EyeOnWaterAPIError or
\* EyeOnWaterAuthError.
BulkImportMeterFail ==
  /\ bulk.active
  /\ bulk' = BulkAfter([meter |-> meters[bulk.idx], outcome |-> "fetch_error",
                        batch |-> BulkBatch(meters[bulk.idx], <<>>),
                        watermark |-> stat[meters[bulk.idx]].last_imported_time],
                       BulkOnFetchError)
  /\ UNCHANGED <<filterCall, scheduling, setupPc, meters, meter, coordinator, hassData, task, platform,
                 listeners, stat, sensor, binary, published, store, recon,
                 lastCycle, committed>>

Next ==
  \/ SetupAuthenticate
  \/ SetupFetchMetersFailed
  \/ SetupLoaded
  \/ SensorPlatformQuery
  \/ SensorPlatformAdd
  \/ BinaryPlatformAdd
  \/ Tick
  \/ \E m \in AllMeters : ReadMeterInfoOk(m)
  \/ \E m \in AllMeters : ReadMeterInfoFail(m)
  \/ \E m \in AllMeters : ReadHistoricalDataOk(m)
  \/ \E m \in AllMeters : ReadHistoricalDataFail(m)
  \/ RefreshSucceeded
  \/ RefreshFailed

Spec == Init /\ [][Next]_vars

(***************************************************************************)
(* The bulk import on its own, over an account of two meters: the entry is *)
(* loaded, the statistic entities hold the watermark the store gave them   *)
(* and the meters hold some fetched history.                               *)
(***************************************************************************)
BulkMeters == <<"m1", "m2">>

OptionalTimes == {None} \cup {Some(t) : t \in Times}

InitBulk ==
  /\ setupPc = "loaded"
  /\ meters = BulkMeters
  /\ meter = [m \in AllMeters |-> NewMeter("gal")]
  /\ coordinator =
       [exists |-> TRUE, last_update_success |-> TRUE, refreshing |-> FALSE,
        initial |-> TRUE]
  /\ hassData = {EntryId}
  /\ task = [m \in AllMeters |-> NoTask]
  /\ platform = [sensor |-> "added", queried |-> Len(BulkMeters),
                 binary |-> "added"]
  /\ listeners = ListenersOf(BulkMeters, <<"stat", "sensor">>)
                   \o ListenersOf(BulkMeters, <<"binary">>)
  /\ store \in [AllMeters -> OptionalTimes]
  /\ stat = [m \in AllMeters |-> NewStatistic(store[m])]
  /\ sensor = [m \in AllMeters |-> NewSensor]
  /\ binary = [m \in AllMeters |-> NewBinary]
  /\ published = [k \in {"stat", "sensor", "binary"} |->
                    [m \in AllMeters |-> Unwritten]]
  /\ bulk = NoBulk
  /\ recon = [m \in AllMeters |-> NoRecon]
  /\ lastCycle = [result |-> "none", notified |-> FALSE, raised |-> FALSE]
  /\ committed = meter
  /\ filterCall = NoCall
  /\ scheduling = NoScheduling

NextBulk ==
  \/ BulkImportStart
  \/ BulkImportMeterOk
  \/ BulkImportMeterFail

SpecBulk == InitBulk /\ [][NextBulk]_vars

(***************************************************************************)
(* The process shut down at any point and started again: everything the    *)
(* integration holds in memory is gone, the statistics store keeps what    *)
(* was submitted, and async_setup_entry runs anew.                         *)
(***************************************************************************)
Restart ==
  /\ setupPc # "start"
  /\ setupPc' = "start"
  /\ meters' = <<>>
  /\ meter' = [m \in AllMeters |-> NewMeter("gal")]
  /\ coordinator' =
       [exists |-> FALSE, last_update_success |-> TRUE, refreshing |-> FALSE,
        initial |-> FALSE]
  /\ hassData' = {}
  /\ task' = [m \in AllMeters |-> NoTask]
  /\ platform' = [sensor |-> "none", queried |-> 0, binary |-> "none"]
  /\ listeners' = <<>>
  /\ stat' = [m \in AllMeters |-> NoStatistic]
  /\ sensor' = [m \in AllMeters |-> NoSensor]
  /\ binary' = [m \in AllMeters |-> NoBinary]
  /\ published' = [k \in {"stat", "sensor", "binary"} |->
                     [m \in AllMeters |-> Unwritten]]
  /\ recon' = [m \in AllMeters |-> NoRecon]
  /\ lastCycle' = [result |-> "none", notified |-> FALSE, raised |-> FALSE]
  /\ committed' = meter'
  /\ UNCHANGED <<filterCall, scheduling, store, bulk>>

NextRestart == Next \/ Restart

SpecRestart == Init /\ [][NextRestart]_vars

(***************************************************************************)
(* async_unload_entry (__init__.py), with hass.data[DOMAIN] shared with    *)
(* the other config entries of the domain.                                 *)
(***************************************************************************)
OtherEntries == {"entry2", "entry3", "entry4"}

\* PLATFORMS
Platforms == {"sensor", "binary"}

\* The platform an entity kind belongs to.
PlatformOf(kind) == IF kind = "binary" THEN "binary" ELSE "sensor"

UnloadPopsAlways(unload_ok) == TRUE

\* "if unload_ok: hass.data[DOMAIN].pop(entry.entry_id)"
UnloadPops(unload_ok) == unload_ok

\* async_unload_entry: the platforms are unloaded (those in failing are
\* not, and keep their entities listening), the entry's data is popped when
\* all of them were, and unload_ok is returned.
async_unload_entry ==
  /\ setupPc = "loaded"
  /\ \E failing \in SUBSET Platforms :
       LET unload_ok == failing = {}
           stays(l) == PlatformOf(l[1]) \in failing
       IN  /\ listeners' = SelectSeq(listeners, stays)
           /\ hassData' = IF UnloadPops(unload_ok) THEN hassData \ {EntryId}
                          ELSE hassData
           /\ setupPc' = IF unload_ok THEN "unloaded" ELSE "unload_failed"
  /\ UNCHANGED <<filterCall, scheduling, meters, meter, coordinator, task, platform, stat,
                 sensor, binary, published, store, bulk, recon, lastCycle,
                 committed>>

\* The entry before its setup, other entries of the domain loaded or not.
InitUnload ==
  /\ setupPc = "start"
  /\ meters = <<>>
  /\ meter = [m \in AllMeters |-> NewMeter("gal")]
  /\ coordinator =
       [exists |-> FALSE, last_update_success |-> TRUE, refreshing |-> FALSE,
        initial |-> FALSE]
  /\ hassData \in SUBSET OtherEntries
  /\ task = [m \in AllMeters |-> NoTask]
  /\ platform = [sensor |-> "none", queried |-> 0, binary |-> "none"]
  /\ listeners = <<>>
  /\ stat = [m \in AllMeters |-> NoStatistic]
  /\ sensor = [m \in AllMeters |-> NoSensor]
  /\ binary = [m \in AllMeters |-> NoBinary]
  /\ published = [k \in {"stat", "sensor", "binary"} |->
                    [m \in AllMeters |-> Unwritten]]
  /\ store = [m \in AllMeters |-> None]
  /\ bulk = NoBulk
  /\ recon = [m \in AllMeters |-> NoRecon]
  /\ lastCycle = [result |-> "none", notified |-> FALSE, raised |-> FALSE]
  /\ committed = meter
  /\ filterCall = NoCall
  /\ scheduling = NoScheduling

\* Setup, the platforms and the unload; the polling cycle does not touch
\* hass.data.
NextUnload ==
  \/ SetupAuthenticate
  \/ SetupFetchMetersFailed
  \/ SetupLoaded
  \/ SensorPlatformQuery
  \/ SensorPlatformAdd
  \/ BinaryPlatformAdd
  \/ async_unload_entry

SpecUnload == InitUnload /\ [][NextUnload]_vars

(***************************************************************************)
(* The platform setups on their own, over an account of two meters with    *)
(* any units of measurement.                                               *)
(***************************************************************************)
InitUnits ==
  /\ setupPc = "forwarding"
  /\ meters = BulkMeters
  /\ meter \in {[m \in AllMeters |-> NewMeter(units[m])] :
                  units \in [AllMeters -> NativeUnits]}
  /\ coordinator =
       [exists |-> TRUE, last_update_success |-> TRUE, refreshing |-> FALSE,
        initial |-> TRUE]
  /\ hassData = {EntryId}
  /\ task = [m \in AllMeters |-> NoTask]
  /\ platform = [sensor |-> "pending", queried |-> 0, binary |-> "pending"]
  /\ listeners = <<>>
  /\ store \in [AllMeters -> OptionalTimes]
  /\ stat = [m \in AllMeters |-> NoStatistic]
  /\ sensor = [m \in AllMeters |-> NoSensor]
  /\ binary = [m \in AllMeters |-> NoBinary]
  /\ published = [k \in {"stat", "sensor", "binary"} |->
                    [m \in AllMeters |-> Unwritten]]
  /\ bulk = NoBulk
  /\ recon = [m \in AllMeters |-> NoRecon]
  /\ lastCycle = [result |-> "none", notified |-> FALSE, raised |-> FALSE]
  /\ committed = meter
  /\ filterCall = NoCall
  /\ scheduling = NoScheduling

NextUnits ==
  \/ SensorPlatformQuery
  \/ SensorPlatformRaises
  \/ SensorPlatformAdd
  \/ BinaryPlatformAdd

SpecUnits == InitUnits /\ [][NextUnits]_vars

(***************************************************************************)
(* When refreshes run (__init__.py:47-56, 64): the refresh started as a    *)
(* task at setup, the refreshes the coordinator schedules every            *)
(* SCAN_INTERVAL, and the refreshes entities request, which go through the *)
(* Debouncer(cooldown=DEBOUNCE_COOLDOWN, immediate=True).  A refresh is an *)
(* execution of async_update_data, that is of read_meters.  Time is not    *)
(* counted: a timer is armed or has fired; a cycle is taken to be shorter  *)
(* than SCAN_INTERVAL.                                                     *)
(***************************************************************************)
ImmediateOff == FALSE

\* immediate=True
Immediate == TRUE

\* A refresh begins: the coordinator drops its interval timer and cancels
\* the debouncer's timer and its pending call.
RefreshBegins(s) ==
  [s EXCEPT !.unsub_refresh = FALSE, !.timer_task = FALSE,
            !.execute_at_end_of_timer = FALSE]

\* A refresh is over: the next one is scheduled SCAN_INTERVAL later when
\* the coordinator has listeners.
RefreshOver(s) == [s EXCEPT !.unsub_refresh = s.has_listeners]

\* Everything but the scheduling.
cycleVars ==
  <<setupPc, meters, meter, coordinator, hassData, task, platform, listeners,
    stat, sensor, binary, published, store, bulk, recon, lastCycle, committed,
    filterCall>>

\* asyncio.create_task(coordinator.async_refresh()) gets to run.
InitialRefreshStarts ==
  /\ scheduling.initial_task
  /\ scheduling' = [RefreshBegins(scheduling) EXCEPT !.initial_task = FALSE,
                                                     !.direct = TRUE]
  /\ UNCHANGED cycleVars

\* The first entity subscribes (async_add_listener): the coordinator
\* schedules a refresh SCAN_INTERVAL later.
FirstListenerAdded ==
  /\ ~scheduling.has_listeners
  /\ scheduling' = [scheduling EXCEPT !.has_listeners = TRUE,
                                      !.unsub_refresh = TRUE]
  /\ UNCHANGED cycleVars

\* update_interval=SCAN_INTERVAL: the interval timer fires.
IntervalFires ==
  /\ scheduling.unsub_refresh
  /\ ~scheduling.direct /\ ~scheduling.debounced
  /\ scheduling' = [RefreshBegins(scheduling) EXCEPT !.direct = TRUE]
  /\ UNCHANGED cycleVars

\* The refresh of the setup task or of the interval ends.
DirectRefreshEnds ==
  /\ scheduling.direct
  /\ scheduling' = [RefreshOver(scheduling) EXCEPT !.direct = FALSE]
  /\ UNCHANGED cycleVars

\* An entity asks for a refresh (coordinator.async_request_refresh): the
\* debouncer notes it for the end of a running cooldown, drops it while a
\* debounced refresh is running, and else runs the refresh at once
\* (immediate) or after the cooldown.  asked and served count the requests
\* and the debounced refreshes since the debouncer was last idle.
RequestRefresh ==
  /\ scheduling.has_listeners
  /\ scheduling.requests < MaxRequests
  /\ scheduling' =
       LET s == [scheduling EXCEPT !.requests = @ + 1] IN
       IF s.timer_task
       THEN [s EXCEPT !.execute_at_end_of_timer = TRUE, !.asked = @ + 1]
       ELSE IF s.debounced THEN [s EXCEPT !.asked = @ + 1]
       ELSE IF ~Immediate
            THEN [s EXCEPT !.execute_at_end_of_timer = TRUE,
                           !.timer_task = TRUE, !.asked = 1, !.served = 0]
       ELSE [RefreshBegins(s) EXCEPT !.debounced = TRUE, !.asked = 1,
                                     !.served = 1]
  /\ UNCHANGED cycleVars

\* The debounced refresh ends: the debouncer starts its cooldown timer.
DebouncedRefreshEnds ==
  /\ scheduling.debounced
  /\ scheduling' = [RefreshOver(scheduling) EXCEPT !.debounced = FALSE,
                                                   !.timer_task = TRUE]
  /\ UNCHANGED cycleVars

\* cooldown=DEBOUNCE_COOLDOWN: the cooldown timer fires; a call noted
\* during the cooldown runs now.
CooldownElapsed ==
  /\ scheduling.timer_task
  /\ scheduling' =
       LET s == [scheduling EXCEPT !.timer_task = FALSE,
                                   !.execute_at_end_of_timer = FALSE] IN
       IF scheduling.execute_at_end_of_timer /\ ~scheduling.debounced
       THEN [RefreshBegins(s) EXCEPT !.debounced = TRUE, !.served = @ + 1]
       ELSE s
  /\ UNCHANGED cycleVars

\* The entry right after async_setup_entry created the refresh task.
InitSched ==
  /\ setupPc = "forwarding"
  /\ meters \in DiscoverableMeters
  /\ meter = [m \in AllMeters |-> NewMeter("gal")]
  /\ coordinator =
       [exists |-> TRUE, last_update_success |-> TRUE, refreshing |-> FALSE,
        initial |-> TRUE]
  /\ hassData = {EntryId}
  /\ task = [m \in AllMeters |-> NoTask]
  /\ platform = [sensor |-> "pending", queried |-> 0, binary |-> "pending"]
  /\ listeners = <<>>
  /\ stat = [m \in AllMeters |-> NoStatistic]
  /\ sensor = [m \in AllMeters |-> NoSensor]
  /\ binary = [m \in AllMeters |-> NoBinary]
  /\ published = [k \in {"stat", "sensor", "binary"} |->
                    [m \in AllMeters |-> Unwritten]]
  /\ store = [m \in AllMeters |-> None]
  /\ bulk = NoBulk
  /\ recon = [m \in AllMeters |-> NoRecon]
  /\ lastCycle = [result |-> "none", notified |-> FALSE, raised |-> FALSE]
  /\ committed = meter
  /\ filterCall = NoCall
  /\ scheduling = [NoScheduling EXCEPT !.initial_task = TRUE]

NextSched ==
  \/ InitialRefreshStarts
  \/ FirstListenerAdded
  \/ IntervalFires
  \/ DirectRefreshEnds
  \/ RequestRefresh
  \/ DebouncedRefreshEnds
  \/ CooldownElapsed

SpecSched == InitSched /\ [][NextSched]_vars

(***************************************************************************)
(* filter_newer_data on its own: called on any list of at most             *)
(* FilterMaxLen points with any cutoff, then on its own result.            *)
(***************************************************************************)
RECURSIVE SeqsUpTo(_, _)
SeqsUpTo(S, n) ==
  IF n = 0 THEN {<<>>}
  ELSE LET shorter == SeqsUpTo(S, n - 1)
       IN  shorter \cup {Append(q, x) : q \in shorter, x \in S}

FilterInputs == SeqsUpTo({DataPoint(t) : t \in Times}, FilterMaxLen)

CallFilter ==
  /\ filterCall.calls = 0
  /\ \E data \in FilterInputs, cutoff \in OptionalTimes :
       filterCall' = [calls |-> 1, data |-> data, cutoff |-> cutoff,
                      result |-> filter_newer_data(data, cutoff)]
  /\ UNCHANGED <<scheduling, setupPc, meters, meter, coordinator, hassData, task,
                 platform, listeners, stat, sensor, binary, published, store,
                 bulk, recon, lastCycle, committed>>

CallFilterAgain ==
  /\ filterCall.calls = 1
  /\ filterCall' = [calls |-> 2, data |-> filterCall.result,
                    cutoff |-> filterCall.cutoff,
                    result |-> filter_newer_data(filterCall.result,
                                                 filterCall.cutoff)]
  /\ UNCHANGED <<scheduling, setupPc, meters, meter, coordinator, hassData, task,
                 platform, listeners, stat, sensor, binary, published, store,
                 bulk, recon, lastCycle, committed>>

NextFilter == CallFilter \/ CallFilterAgain

SpecFilter == Init /\ [][NextFilter]_vars

(***************************************************************************)
(* What the claims speak of, stated apart from the code's own operators.   *)
(***************************************************************************)
\* The indices of the points of data strictly newer than the cutoff (all of
\* them when there is no cutoff).
NewerIndices(data, cutoff) ==
  {j \in 1..Len(data) : cutoff = None \/ data[j].dt > cutoff[1]}

\* The points of data strictly newer than the cutoff, in their order.
NewerPoints(data, cutoff) ==
  LET idx == NewerIndices(data, cutoff)
      nth(i) == CHOOSE j \in idx : Cardinality({k \in idx : k < j}) = i - 1
  IN  [i \in 1..Cardinality(idx) |-> data[nth(i)]]

\* The batch is addressed to the meter's stream and holds one row per
\* point, in order.
HoldsExactly(b, m, points) ==
  /\ b.metadata.statistic_id = m
  /\ Len(b.statistics) = Len(points)
  /\ \A i \in 1..Len(points) :
       /\ b.statistics[i].start = points[i].dt
       /\ b.statistics[i].state = points[i].reading
       /\ b.statistics[i].sum = points[i].reading

\* No row of the batch is at or before the watermark.
AllNewer(b, watermark) ==
  \A t \in BatchTimes(b) : watermark = None \/ t > watermark[1]

\* The meter's reconciliation ran to its end in the latest cycle.
Reconciled(m) == recon[m].outcome \in {"submitted", "empty"}

\* The statistic entity of m run once more on the state as it is.
RunAgain(m, submitOk) == Statistic_state_update(Entities, m, TRUE, submitOk)

Registered(kind, m) ==
  \E i \in 1..Len(listeners) : listeners[i] = <<kind, m>>

UnavailableState == [written |-> TRUE, available |-> FALSE, value |-> None]

\* C1: no submission, by the statistic entity or by the bulk import, holds a
\* point at or before the meter's watermark at the time, and the statistic
\* entity's submission holds every fetched point after the watermark.
C1_NoStaleSubmission ==
  /\ \A i \in 1..Len(bulk.log) :
       bulk.log[i].outcome # "fetch_error"
         => AllNewer(bulk.log[i].batch, bulk.log[i].watermark)
  /\ \A m \in AllMeters : \A k \in 1..Len(recon[m].batches) :
       /\ AllNewer(recon[m].batches[k], recon[m].before)
       /\ \A j \in NewerIndices(recon[m].hist, recon[m].before) :
            recon[m].hist[j].dt \in BatchTimes(recon[m].batches[k])

\* C2: when the store raises on the submission, the watermark keeps the
\* value it had before the call, and a successful run on the same fetched
\* history submits the same points again: those newer than that watermark.
C2_FailedSubmissionKeepsWatermark ==
  \A m \in AllMeters :
    recon[m].outcome = "submit_error" =>
      /\ stat[m].last_imported_time = recon[m].before
      /\ meter[m].last_historical_data = recon[m].hist =>
           LET again == RunAgain(m, TRUE).recon[m] IN
             /\ again.outcome = "submitted"
             /\ again.batches = recon[m].batches
             /\ Len(again.batches) = 1
             /\ HoldsExactly(again.batches[1], m,
                             NewerPoints(recon[m].hist, recon[m].before))

C2_Witness ==
  \E m \in AllMeters :
    /\ recon[m].outcome = "submit_error"
    /\ recon[m].before # None
    /\ Len(recon[m].filtered) < Len(recon[m].hist)

\* C3: after a failed cycle, also once its remaining fetches are over, every
\* meter is as the last successful cycle left it.
C3_FailedCycleChangesNoMeter ==
  (lastCycle.result = "failed" /\ ~coordinator.refreshing)
    => \A m \in AllMeters : meter[m] = committed[m]

\* C4: a second run of the reconciliation on the same fetched history
\* leaves the watermark as the first run left it and submits nothing.
C4_SecondRunSubmitsNothing ==
  \A m \in AllMeters :
    (Reconciled(m) /\ meter[m].last_historical_data = recon[m].hist) =>
      \A submitOk \in BOOLEAN :
        LET again == RunAgain(m, submitOk) IN
          /\ again.stat[m].last_imported_time = stat[m].last_imported_time
          /\ again.recon[m].batches = <<>>
          /\ again.store = store

C4_Witness ==
  \E m \in AllMeters :
    /\ recon[m].outcome = "submitted"
    /\ Len(recon[m].filtered) > 1
    /\ meter[m].last_historical_data = recon[m].hist

\* C5: the filter returns exactly the points strictly newer than the
\* cutoff, in their order; all of them when there is no cutoff; and its
\* result again when applied to its result.
C5_FilterReturnsNewer ==
  filterCall.calls > 0 =>
    /\ filterCall.result = NewerPoints(filterCall.data, filterCall.cutoff)
    /\ filterCall.cutoff = None => filterCall.result = filterCall.data
    /\ filterCall.calls = 2 => filterCall.result = filterCall.data

C5_Witness ==
  /\ filterCall.calls = 1
  /\ filterCall.cutoff # None
  /\ 0 < Len(filterCall.result)
  /\ Len(filterCall.result) < Len(filterCall.data)

\* C6: a reconciliation that runs to its end in a successful cycle submits,
\* when some fetched point is newer than the watermark, one batch of
\* exactly those points and moves the watermark to the last of them; when
\* none is, it submits nothing and leaves the watermark.
C6_OneBatchOfFilteredPoints ==
  \A m \in AllMeters :
    (lastCycle.result = "ok" /\ Reconciled(m)) =>
      LET expected == NewerPoints(recon[m].hist, recon[m].before) IN
        IF expected # <<>>
        THEN /\ Len(recon[m].batches) = 1
             /\ HoldsExactly(recon[m].batches[1], m, expected)
             /\ stat[m].last_imported_time = Some(Last(expected).dt)
        ELSE /\ recon[m].batches = <<>>
             /\ stat[m].last_imported_time = recon[m].before

C6_Witness ==
  \E m \in AllMeters :
    /\ lastCycle.result = "ok"
    /\ recon[m].outcome = "submitted"
    /\ recon[m].before # None
    /\ Len(recon[m].filtered) < Len(recon[m].hist)

\* C7: a reconciliation that finds the fetched history empty in a
\* successful cycle raises the no-data error, submits nothing and leaves
\* the watermark.
C7_EmptyHistoryRaises ==
  \A m \in AllMeters :
    (lastCycle.result = "ok" /\ recon[m].outcome # "none"
       /\ recon[m].hist = <<>>) =>
      /\ recon[m].outcome = "nodata"
      /\ lastCycle.raised
      /\ recon[m].batches = <<>>
      /\ stat[m].last_imported_time = recon[m].before

C7_Witness ==
  \E m \in AllMeters :
    /\ recon[m].outcome = "nodata"
    /\ recon[m].before # None

\* C8: when the bulk import is over, every meter of the collection has had
\* its history fetched, whatever happened to the meters before it.
C8_BulkErrorsIsolated ==
  (~bulk.active /\ bulk.result # "none") =>
    \A i \in 1..Len(meters) :
      \E k \in 1..Len(bulk.log) : bulk.log[k].meter = meters[i]

\* The step in which the coordinator reports a failed cycle to its
\* listeners.
FailedNotification ==
  /\ coordinator.refreshing
  /\ ~coordinator'.refreshing
  /\ ~coordinator'.last_update_success
  /\ lastCycle'.notified

C10_AuthFailureAbortsSetup ==
  /\ setupPc = "auth_failed" =>
       /\ meters = <<>>
       /\ ~coordinator.exists /\ ~coordinator.initial
       /\ ~coordinator.refreshing
       /\ hassData = {}
       /\ platform.sensor = "none" /\ platform.binary = "none"
       /\ listeners = <<>>
       /\ lastCycle.result = "none"
       /\ ~ENABLED Next
  /\ lastCycle.result = "failed" =>
       /\ coordinator.refreshing \/ ~coordinator.last_update_success
       /\ (setupPc = "loaded" /\ ~coordinator.refreshing
             /\ \A t \in Tasks : StatusOf(t) # "pending") => ENABLED Tick

C10_Witness == setupPc = "auth_failed"

\* The step in which a refresh ends, with the outcome it reports.
RefreshEnds ==
  /\ coordinator.refreshing
  /\ coordinator'.exists
  /\ ~coordinator'.refreshing

\* C12: the watermark of a statistic entity never decreases, and a step
\* changes it only when it is the end of a refresh in which the entity's
\* reconciliation submitted a batch; the new value is the time of the last
\* submitted row.
C12_WatermarkOnlyAdvances ==
  [][\A m \in AllMeters :
       (stat[m].created /\ stat'[m].created) =>
         LET before == stat[m].last_imported_time
             after == stat'[m].last_imported_time
         IN  /\ before # None => (after # None /\ after[1] >= before[1])
             /\ after # before =>
                  /\ RefreshEnds
                  /\ coordinator'.last_update_success
                  /\ recon'[m].outcome = "submitted"
                  /\ recon'[m].before = before
                  /\ after = Some(SetMax(BatchTimes(recon'[m].batches[1])))]_vars

C12_Witness ==
  \E m \in AllMeters :
    /\ recon[m].outcome = "submitted"
    /\ recon[m].before # None
    /\ stat[m].last_imported_time # None
    /\ stat[m].last_imported_time[1] > recon[m].before[1]
    /\ store[m] = stat[m].last_imported_time

\* C13: a cycle in which a reconciliation raised (no data, or the store
\* refusing the batch) is a failed cycle: the coordinator's
\* last_update_success is false after it.
C13_ReconciliationErrorFailsCycle ==
  (lastCycle.raised /\ ~coordinator.refreshing)
    => ~coordinator.last_update_success

\* C17: once a refresh whose listeners ran to their end has succeeded and
\* the sensor entities are added, the water sensor and the statistic sensor
\* of every meter are available with the meter's reading and the statistic
\* sensor has reconciled the fetched history.  (A later refresh is reported
\* to the added entities, so only the refresh started at setup can end
\* before they are added.)
C17_InitialRefreshReachesEntities ==
  (platform.sensor = "added" /\ lastCycle.result = "ok"
     /\ ~lastCycle.raised /\ ~coordinator.refreshing) =>
    \A m \in AllMeters :
      InList(m) =>
        /\ sensor[m].available
        /\ sensor[m].state = Some(MeterReading(m))
        /\ stat[m].available
        /\ stat[m].state = Some(MeterReading(m))
        /\ Reconciled(m)

\* The step in which the sensor platform adds its entities while the
\* coordinator's last update is not successful.
AddedWhileFailed ==
  /\ platform.sensor = "pending"
  /\ platform'.sensor = "added"
  /\ ~coordinator.last_update_success

\* What the platform reads from a reading sensor that was just added: it is
\* available with the restored value, read without error, or unavailable
\* with no value.
RestoredOrUnavailable(e, shown) ==
  IF e.state # None
  THEN /\ e.available
       /\ native_value(e.state).ok
       /\ native_value(e.state).value = Some(e.state[1].reading)
       /\ shown = [written |-> TRUE, available |-> TRUE,
                   value |-> Some(e.state[1].reading)]
  ELSE /\ ~e.available
       /\ shown = UnavailableState

\* C18: a water or statistic sensor added while the last update is not
\* successful is available exactly when a stored state exists, and then its
\* native value is the restored value, read without error; without a stored
\* state it is unavailable with no value.
C18_RestoredStateIsReadable ==
  [][AddedWhileFailed =>
       \A m \in AllMeters :
         InList(m) =>
           /\ RestoredOrUnavailable(stat'[m], published'["stat"][m])
           /\ RestoredOrUnavailable(sensor'[m], published'["sensor"][m])]_vars


\* The watermark of every statistic entity is a time the store holds.
WatermarkBacked ==
  \A m \in AllMeters :
    (stat[m].created /\ stat[m].last_imported_time # None) =>
      /\ store[m] # None
      /\ stat[m].last_imported_time[1] <= store[m][1]

\* The step constructs the statistic entity of m.
Constructs(m) == ~stat[m].created /\ stat'[m].created

\* The step ends the first refresh of the process, and it succeeded.
FirstRefreshSucceeds ==
  /\ RefreshEnds
  /\ coordinator'.last_update_success
  /\ lastCycle.result = "none"

\* The times of the rows the reconciliation of m handed to the store.
HandedOver(r) == UNION {BatchTimes(r.batches[k]) : k \in 1..Len(r.batches)}

\* C16: after a shutdown at any point and a restart, the watermark of a
\* meter is the store's last imported time when its entity is constructed,
\* no watermark is ahead of the store, and the first successful cycle hands
\* every fetched point newer than the store's last imported time to the
\* store.
C16_RestartLosesNoPoint ==
  [][/\ WatermarkBacked'
     /\ \A m \in AllMeters :
          /\ Constructs(m) => stat'[m].last_imported_time = store[m]
          /\ (FirstRefreshSucceeds /\ InList(m)) =>
               \A j \in NewerIndices(meter[m].last_historical_data, store[m]) :
                 meter[m].last_historical_data[j].dt \in HandedOver(recon'[m])
    ]_vars


\* The step in which async_unload_entry runs.
Unloads == setupPc = "loaded" /\ setupPc' \in {"unloaded", "unload_failed"}

\* C19: unloading the entry removes its key from hass.data[DOMAIN] exactly
\* when the platforms were unloaded, leaves the dictionary as it was when
\* they were not, and never touches the keys of other entries.
C19_UnloadPopsOnlyOnSuccess ==
  [][Unloads =>
       /\ EntryId \in hassData
       /\ setupPc' = "unloaded" => hassData' = hassData \ {EntryId}
       /\ setupPc' = "unload_failed" => hassData' = hassData
       /\ hassData' \cap OtherEntries = hassData \cap OtherEntries]_vars

C19_Witness ==
  /\ setupPc = "unload_failed"
  /\ hassData = {EntryId} \cup OtherEntries
  /\ listeners # <<>>


\* C15: when the sensor platform's setup is over, every meter whose unit
\* maps has its statistic and water sensor listening to the coordinator,
\* whatever the units of the other meters, and no cycle was failed.
C15_UnknownUnitIsolated ==
  platform.sensor \in {"added", "failed"} =>
    /\ coordinator.last_update_success
    /\ \A m \in AllMeters :
         (InList(m) /\ ConstructsSensors(m)) =>
           /\ stat[m].created /\ Registered("stat", m)
           /\ sensor[m].created /\ Registered("sensor", m)


\* The step is a refresh request.
Asks == scheduling'.requests = scheduling.requests + 1

\* The debouncer is idle: no cooldown is running and no debounced refresh.
DebouncerIdle == ~scheduling.timer_task /\ ~scheduling.debounced

\* The step starts a debounced refresh.
DebouncedStarts == ~scheduling.debounced /\ scheduling'.debounced

C14_OneCycleInFlight ==
  ~(scheduling.direct /\ scheduling.debounced)


====
